---- MODULE Spec2Model ----
(***************************************************************************)
(* ThreeMFExtractor (src/src/extractor.py): extraction of a 3MF project    *)
(* container and reconciliation with the statistics of a G-code stream.   *)
(*                                                                         *)
(* The file system (the container, its directory, the G-code stream) is   *)
(* the model's input: it is chosen in Init and never changes.  One        *)
(* extractor instance is constructed and extract() is run on it, one      *)
(* stage per action, in the order of the code (Spec); SpecRerun adds      *)
(* later calls of extract(), on the same instance or on a new one.        *)
(*                                                                         *)
(* Conventions.  Python's None is the record None.  A string that the     *)
(* code inspects character by character (a file stem) is a sequence of    *)
(* one-character strings; other strings are TLA+ strings.  A float is an  *)
(* integer count of hundredths (0.2 is 20, 1.24 is 124).                   *)
(***************************************************************************)
EXTENDS Integers, Sequences, FiniteSets, TLC

\* ------------------------------------------------------------------ bounds

\* Most G-code files a directory holds.
MaxCandidates == 3
\* Longest filament_type / filament_colour list of a project-settings JSON.
MaxFilaments == 2
\* Most <object> elements of the model-settings XML.
MaxObjects == 2

\* The extract() calls and constructions of one behaviour.
MaxRuns == 2

\* ------------------------------------------------------------------ values

\* Python's None, and a present optional value.
None == [t |-> "none"]
Some(v) == [t |-> "some", v |-> v]

\* The result of a call: a value, or a raised exception.
Ok(v) == [t |-> "ok", v |-> v]
Raise(e) == [t |-> "raise", exc |-> e]

\* A JSON value of the settings: a string, or a list of strings.
Str(s) == [t |-> "str", s |-> s]
List(l) == [t |-> "list", l |-> l]

\* No path (None where the code holds an Optional[Path]); a path is the
\* non-empty stem of a G-code file of the container's folder.
NoPath == <<>>

Max(a, b) == IF a >= b THEN a ELSE b

\* ------------------------------------------------------------- characters

\* Code points of the characters the file names of the model are made of.
Ord ==
  ("-" :> 45) @@ ("." :> 46) @@ ("2" :> 50) @@ ("P" :> 80) @@ ("_" :> 95) @@
  ("a" :> 97) @@ ("c" :> 99) @@ ("d" :> 100) @@ ("e" :> 101) @@ ("g" :> 103) @@
  ("l" :> 108) @@ ("m" :> 109) @@ ("o" :> 111) @@ ("p" :> 112) @@
  ("r" :> 114) @@ ("t" :> 116) @@ ("v" :> 118) @@ ("z" :> 122)

\* The upper-case letters of the model's strings, with their lower case.
UpperToLower ==
  ("A" :> "a") @@ ("C" :> "c") @@ ("E" :> "e") @@ ("G" :> "g") @@
  ("H" :> "h") @@ ("I" :> "i") @@ ("L" :> "l") @@ ("N" :> "n") @@
  ("O" :> "o") @@ ("P" :> "p") @@ ("S" :> "s") @@ ("T" :> "t")

\* str.lower() on one character.
LowerChar(c) == IF c \in DOMAIN UpperToLower THEN UpperToLower[c] ELSE c

\* str.lower()
Lower(s) == [i \in 1..Len(s) |-> LowerChar(s[i])]

\* str.startswith(prefix)
StartsWith(s, prefix) ==
  /\ Len(prefix) <= Len(s)
  /\ \A i \in 1..Len(prefix) : s[i] = prefix[i]

\* s.split('_')[0]: the text before the first underscore, all of s without one.
SplitFirst(s) ==
  LET us == {i \in 1..Len(s) : s[i] = "_"}
  IN  IF us = {} THEN s
      ELSE SubSeq(s, 1, (CHOOSE i \in us : \A j \in us : i <= j) - 1)

\* Path(...).name of a G-code file with the given stem.
FileName(stem) == stem \o <<".", "g", "c", "o", "d", "e">>

\* a < b for two strings, as Python compares them (by code point).
StrLess(a, b) ==
  \/ /\ Len(a) < Len(b)
     /\ \A i \in 1..Len(a) : a[i] = b[i]
  \/ \E i \in 1..Len(a) :
       /\ i <= Len(b)
       /\ Ord[a[i]] < Ord[b[i]]
       /\ \A j \in 1..(i - 1) : a[j] = b[j]

\* sorted(...) of the paths of one folder: by file name.
RECURSIVE Sorted(_)
Sorted(S) ==
  IF S = {} THEN <<>>
  ELSE LET m == CHOOSE x \in S :
                  \A y \in S \ {x} : StrLess(FileName(x), FileName(y))
       IN  <<m>> \o Sorted(S \ {m})

\* ------------------------------------------------------------ file stems

part        == <<"p", "a", "r", "t">>
part_plate2 == <<"p", "a", "r", "t", "_", "p", "l", "a", "t", "e", "2">>
part_dash2  == <<"p", "a", "r", "t", "-", "2">>
Part_v2     == <<"P", "a", "r", "t", "_", "v", "2">>
pa_rt       == <<"p", "a", "_", "r", "t">>
zeta        == <<"z", "e", "t", "a">>
omega       == <<"o", "m", "e", "g", "a">>
\* A path outside the directory that does not exist.
gone        == <<"g", "o", "n", "e">>

Stems == {part, part_plate2, part_dash2, Part_v2, pa_rt, zeta, omega}
ProjectStems == {part, <<"P", "a", "r", "t">>, <<"p", "a">>}

\* ------------------------------------------------------------- conversions

\* float(s) of the numeric strings of the model, in hundredths.
FloatOf ==
  ("0" :> 0) @@ ("0.0" :> 0) @@ ("0.2" :> 20) @@ ("0.28" :> 28) @@
  ("0.4" :> 40) @@ ("0.6" :> 60) @@ ("1.24" :> 124) @@ ("1.5" :> 150) @@
  ("2" :> 200) @@ ("3" :> 300) @@ ("4" :> 400) @@ ("5" :> 500) @@
  ("25.5" :> 2550) @@ ("35" :> 3500) @@ ("55" :> 5500) @@ ("60" :> 6000) @@
  ("65" :> 6500) @@ ("200" :> 20000) @@ ("220" :> 22000)

\* float(s): ValueError for a string that is no number.
float(s) == IF s \in DOMAIN FloatOf THEN Ok(FloatOf[s]) ELSE Raise("ValueError")

\* int(s) of the integer strings of the model.
IntOf ==
  ("0" :> 0) @@ ("1" :> 1) @@ ("2" :> 2) @@ ("3" :> 3) @@ ("4" :> 4) @@
  ("5" :> 5) @@ ("35" :> 35) @@ ("55" :> 55) @@ ("60" :> 60) @@
  ("65" :> 65) @@ ("200" :> 200) @@ ("220" :> 220)

\* int(s): ValueError for a string that is no integer ("1.5", "x").
int(s) == IF s \in DOMAIN IntOf THEN Ok(IntOf[s]) ELSE Raise("ValueError")

\* ------------------------------------------------------------ colour names

\* The value of a hexadecimal digit.
HexVal ==
  ("0" :> 0) @@ ("1" :> 1) @@ ("2" :> 2) @@ ("3" :> 3) @@ ("4" :> 4) @@
  ("5" :> 5) @@ ("6" :> 6) @@ ("7" :> 7) @@ ("8" :> 8) @@ ("9" :> 9) @@
  ("A" :> 10) @@ ("B" :> 11) @@ ("C" :> 12) @@ ("D" :> 13) @@ ("E" :> 14) @@
  ("F" :> 15) @@ ("a" :> 10) @@ ("b" :> 11) @@ ("c" :> 12) @@ ("d" :> 13) @@
  ("e" :> 14) @@ ("f" :> 15)

\* The characters of the colour strings of the model.
Chars ==
  ("" :> <<>>) @@
  ("#FFFFFF" :> <<"#", "F", "F", "F", "F", "F", "F">>) @@
  ("#123456" :> <<"#", "1", "2", "3", "4", "5", "6">>) @@
  ("#FF0000" :> <<"#", "F", "F", "0", "0", "0", "0">>) @@
  ("#FFFFF" :> <<"#", "F", "F", "F", "F", "F">>) @@
  ("red" :> <<"r", "e", "d">>) @@
  ("#800080" :> <<"#", "8", "0", "0", "0", "8", "0">>) @@
  ("#000064" :> <<"#", "0", "0", "0", "0", "6", "4">>) @@
  ("#000E63" :> <<"#", "0", "0", "0", "E", "6", "3">>) @@
  ("#A69728" :> <<"#", "A", "6", "9", "7", "2", "8">>) @@
  ("#E5E5E5" :> <<"#", "E", "5", "E", "5", "E", "5">>) @@
  ("#ff0000" :> <<"#", "f", "f", "0", "0", "0", "0">>) @@
  ("#" :> <<"#">>) @@
  ("#F" :> <<"#", "F">>) @@
  ("#FFFF" :> <<"#", "F", "F", "F", "F">>) @@
  ("#GGGGGG" :> <<"#", "G", "G", "G", "G", "G", "G">>) @@
  ("#12345G" :> <<"#", "1", "2", "3", "4", "5", "G">>) @@
  ("##FF0000" :> <<"#", "#", "F", "F", "0", "0", "0", "0">>) @@
  ("#FF0000FF" :> <<"#", "F", "F", "0", "0", "0", "0", "F", "F">>) @@
  ("#-1-1-1" :> <<"#", "-", "1", "-", "1", "-", "1">>) @@
  ("# 1 2 3" :> <<"#", " ", "1", " ", "2", " ", "3">>)

\* s[a:b] of Python, a and b 0-based.
Slice(s, a, b) ==
  LET hi == IF b < Len(s) THEN b ELSE Len(s)
  IN  IF a >= hi THEN <<>> ELSE SubSeq(s, a + 1, hi)

\* s.lstrip('#')
RECURSIVE LStripHash(_)
LStripHash(s) ==
  IF Len(s) > 0 /\ s[1] = "#" THEN LStripHash(Tail(s)) ELSE s

RECURSIVE HexValue(_)
HexValue(s) ==
  IF Len(s) = 0 THEN 0
  ELSE 16 * HexValue(SubSeq(s, 1, Len(s) - 1)) + HexVal[s[Len(s)]]

\* s.strip(): int() ignores blanks around the number.
RECURSIVE StripBlanks(_)
StripBlanks(s) ==
  IF Len(s) > 0 /\ s[1] = " " THEN StripBlanks(Tail(s))
  ELSE IF Len(s) > 0 /\ s[Len(s)] = " "
  THEN StripBlanks(SubSeq(s, 1, Len(s) - 1))
  ELSE s

\* int(s, 16) on a slice of at most two characters: blanks around and a
\* sign before the digits are accepted; ValueError without a digit and on
\* any other character.
IntHex(s) ==
  LET t == StripBlanks(s)
      signed == Len(t) > 0 /\ t[1] \in {"+", "-"}
      digits == IF signed THEN Tail(t) ELSE t
  IN  IF Len(digits) = 0 \/ \E i \in 1..Len(digits) : digits[i] \notin DOMAIN HexVal
      THEN Raise("ValueError")
      ELSE Ok(IF signed /\ t[1] = "-" THEN 0 - HexValue(digits)
              ELSE HexValue(digits))

\* The palette, in the dict's insertion order.
Palette == <<
  [rgb |-> <<255, 255, 255>>, name |-> "Branco"],
  [rgb |-> <<0, 0, 0>>,       name |-> "Preto"],
  [rgb |-> <<255, 0, 0>>,     name |-> "Vermelho"],
  [rgb |-> <<0, 255, 0>>,     name |-> "Verde"],
  [rgb |-> <<0, 0, 255>>,     name |-> "Azul"],
  [rgb |-> <<255, 255, 0>>,   name |-> "Amarelo"],
  [rgb |-> <<255, 165, 0>>,   name |-> "Laranja"],
  [rgb |-> <<128, 128, 128>>, name |-> "Cinza"],
  [rgb |-> <<229, 229, 229>>, name |-> "Branco"],
  [rgb |-> <<77, 77, 77>>,    name |-> "Cinza Escuro"] >>

\* The rejection threshold of the nearest colour (squared distance).
ColorThreshold == 10000

Dist(r, g, b, c) ==
  (r - c[1]) * (r - c[1]) + (g - c[2]) * (g - c[2]) + (b - c[3]) * (b - c[3])

\* The loop over the palette: the first entry of least distance.
RECURSIVE ClosestLastOnTies(_, _, _, _, _, _)
ClosestLastOnTies(r, g, b, k, min_dist, closest) ==
  IF k > Len(Palette) THEN [min_dist |-> min_dist, closest |-> closest]
  ELSE LET dist == Dist(r, g, b, Palette[k].rgb)
       IN  IF min_dist = -1 \/ dist <= min_dist
           THEN ClosestLastOnTies(r, g, b, k + 1, dist, Palette[k].name)
           ELSE ClosestLastOnTies(r, g, b, k + 1, min_dist, closest)
RECURSIVE Closest(_, _, _, _, _, _)
Closest(r, g, b, k, min_dist, closest) ==
  IF k > Len(Palette) THEN [min_dist |-> min_dist, closest |-> closest]
  ELSE LET dist == Dist(r, g, b, Palette[k].rgb)
       IN  IF min_dist = -1 \/ dist < min_dist
           THEN Closest(r, g, b, k + 1, dist, Palette[k].name)
           ELSE Closest(r, g, b, k + 1, min_dist, closest)

\* _hex_to_color_name, on the characters of hex_color (min_dist -1 stands
\* for float('inf')).
_hex_to_color_nameNoThreshold(hex_color) ==
  IF Len(hex_color) = 0 \/ hex_color[1] # "#" THEN ""
  ELSE LET hex_clean == LStripHash(hex_color)
           r == IntHex(Slice(hex_clean, 0, 2))
           g == IntHex(Slice(hex_clean, 2, 4))
           b == IntHex(Slice(hex_clean, 4, 6))
       IN  IF r.t = "raise" \/ g.t = "raise" \/ b.t = "raise" THEN ""
           ELSE Closest(r.v, g.v, b.v, 1, -1, "").closest
_hex_to_color_name(hex_color) ==
  IF Len(hex_color) = 0 \/ hex_color[1] # "#" THEN ""
  ELSE LET hex_clean == LStripHash(hex_color)
           r == IntHex(Slice(hex_clean, 0, 2))
           g == IntHex(Slice(hex_clean, 2, 4))
           b == IntHex(Slice(hex_clean, 4, 6))
       IN  IF r.t = "raise" \/ g.t = "raise" \/ b.t = "raise" THEN ""
           ELSE LET c == Closest(r.v, g.v, b.v, 1, -1, "")
                IN  IF c.min_dist < ColorThreshold THEN c.closest ELSE ""

\* ---------------------------------------------------------------- settings

\* _get_setting: dict.get on the project settings (a function from the keys
\* the JSON document holds).
_get_setting(settings, key, default) ==
  IF key \in DOMAIN settings THEN settings[key] ELSE default

\* {} of Python: the settings of a container without (readable) JSON.
EmptySettings == [k \in {} |-> None]

\* ---------------------------------------------------------------- filaments

\* num_filaments of _extract_filaments.
NumFilamentsTypesOnly(types, colors) == Max(Len(types), 1)
NumFilaments(types, colors) == Max(Max(Len(types), Len(colors)), 1)

\* The slot of the filament built in iteration i (0-based).
SlotOfIndex(i) == i + 1

\* FilamentInfo(...) of iteration i of _extract_filaments; the usage fields
\* keep the dataclass's default, None.
FilamentAt(i, types, colors, vendors, densities, costs) ==
  [slot           |-> SlotOfIndex(i),
   filament_type  |-> IF i < Len(types) THEN types[i + 1] ELSE "Unknown",
   color          |-> IF i < Len(colors) THEN colors[i + 1] ELSE "#808080",
   color_name     |-> _hex_to_color_name(
                        Chars[IF i < Len(colors) THEN colors[i + 1] ELSE ""]),
   vendor         |-> IF i < Len(vendors) THEN vendors[i + 1] ELSE "Unknown",
   density        |-> IF i < Len(densities) THEN float(densities[i + 1]).v
                      ELSE 124,
   cost_per_kg    |-> IF i < Len(costs) THEN float(costs[i + 1]).v ELSE 0,
   used_grams     |-> None,
   used_meters    |-> None,
   estimated_cost |-> None]

\* _extract_filaments: the list, or the ValueError of float() on a density
\* or cost that is no number.
_extract_filaments(settings) ==
  LET types     == _get_setting(settings, "filament_type", List(<<>>)).l
      colors    == _get_setting(settings, "filament_colour", List(<<>>)).l
      vendors   == _get_setting(settings, "filament_vendor", List(<<>>)).l
      densities == _get_setting(settings, "filament_density", List(<<>>)).l
      costs     == _get_setting(settings, "filament_cost", List(<<>>)).l
      num_filaments == NumFilaments(types, colors)
      Fails(i) ==
        \/ i < Len(densities) /\ float(densities[i + 1]).t = "raise"
        \/ i < Len(costs) /\ float(costs[i + 1]).t = "raise"
  IN  IF \E i \in 0..(num_filaments - 1) : Fails(i)
      THEN Raise("ValueError")
      ELSE Ok([j \in 1..num_filaments |->
                 FilamentAt(j - 1, types, colors, vendors, densities, costs)])

\* length_per_slot[slot] / 1000.0: millimetres to metres.
MmToMeters(mm) == mm \div 1000

\* The three assignments of _update_filaments_from_gcode on one filament.
OverlayZeroFill(filament, stats) ==
  [filament EXCEPT
     !.used_grams = IF filament.slot \in DOMAIN stats.weight_per_slot
                    THEN Some(stats.weight_per_slot[filament.slot])
                    ELSE Some(0),
     !.used_meters = IF filament.slot \in DOMAIN stats.length_per_slot
                     THEN Some(MmToMeters(stats.length_per_slot[filament.slot]))
                     ELSE Some(0),
     !.estimated_cost = IF filament.slot \in DOMAIN stats.cost_per_slot
                        THEN Some(stats.cost_per_slot[filament.slot])
                        ELSE Some(0)]
Overlay(filament, stats) ==
  [filament EXCEPT
     !.used_grams = IF filament.slot \in DOMAIN stats.weight_per_slot
                    THEN Some(stats.weight_per_slot[filament.slot])
                    ELSE @,
     !.used_meters = IF filament.slot \in DOMAIN stats.length_per_slot
                     THEN Some(MmToMeters(stats.length_per_slot[filament.slot]))
                     ELSE @,
     !.estimated_cost = IF filament.slot \in DOMAIN stats.cost_per_slot
                        THEN Some(stats.cost_per_slot[filament.slot])
                        ELSE @]

\* _update_filaments_from_gcode: nothing without statistics.
_update_filaments_from_gcode(fils, stats) ==
  IF stats = None THEN fils
  ELSE [j \in 1..Len(fils) |-> Overlay(fils[j], stats.v)]

\* ------------------------------------------------------------------ objects

\* Path(value).name of the source files of the model.
BaseName == ("models/cube.stl" :> "cube.stl") @@ ("cube.stl" :> "cube.stl")

\* The value of an <object>'s extruder metadata: int(value) if value else 1.
ExtruderOf(value) == IF value # "" THEN int(value) ELSE Ok(1)

\* The loop over the <metadata> children of one <object>: a later element
\* of a key overrides an earlier one.
RECURSIVE ObjectMeta(_, _, _)
ObjectMeta(metas, k, acc) ==
  IF k > Len(metas) \/ acc.t = "raise" THEN acc
  ELSE LET key == metas[k].key
           value == metas[k].value
       IN  IF key = "name"
           THEN ObjectMeta(metas, k + 1, Ok([acc.v EXCEPT !.name = value]))
           ELSE IF key = "extruder"
           THEN LET e == ExtruderOf(value)
                IN  IF e.t = "raise" THEN e
                    ELSE ObjectMeta(metas, k + 1,
                                    Ok([acc.v EXCEPT !.extruder = e.v]))
           ELSE IF key = "source_file"
           THEN ObjectMeta(metas, k + 1,
                  Ok([acc.v EXCEPT !.source_file =
                        IF value # "" THEN Some(BaseName[value]) ELSE None]))
           ELSE ObjectMeta(metas, k + 1, acc)

\* ObjectInfo(...) of one <object> element: its id attribute is None (the
\* default 0 is used) or a string.
ObjectOf(obj_elem) ==
  LET obj_id == IF obj_elem.id = None THEN Ok(0) ELSE int(obj_elem.id.v)
  IN  IF obj_id.t = "raise" THEN obj_id
      ELSE ObjectMeta(obj_elem.meta, 1,
             Ok([obj_id |-> obj_id.v, name |-> "", extruder |-> 1,
                 layer_height |-> None, source_file |-> None]))

\* _extract_objects: no objects without the model-settings XML; the
\* ValueError of int() on an id or extruder that is no integer.
_extract_objects(model_settings) ==
  IF model_settings = None THEN Ok(<<>>)
  ELSE LET elems == model_settings.v.objects
           built == [k \in 1..Len(elems) |-> ObjectOf(elems[k])]
       IN  IF \E k \in 1..Len(elems) : built[k].t = "raise"
           THEN Raise("ValueError")
           ELSE Ok([k \in 1..Len(elems) |-> built[k].v])

\* ------------------------------------------------------------------- plates

\* name.split('plate_')[1].split('.')[0] of the plate entries of the model.
PlateIndexText ==
  ("Metadata/plate_1.json" :> "1") @@ ("Metadata/plate_2.json" :> "2") @@
  ("Metadata/plate_x.json" :> "x")

\* dict.get on a plate's JSON object.
PlateGet(plate_data, key, default) ==
  IF key \in DOMAIN plate_data THEN plate_data[key] ELSE default

\* _extract_plate_objects: every placed object is given extruder 1.
_extract_plate_objects(plate_data) ==
  LET bbox_objects == PlateGet(plate_data, "bbox_objects", <<>>)
  IN  [k \in 1..Len(bbox_objects) |->
         [obj_id |-> bbox_objects[k].id, name |-> bbox_objects[k].name,
          extruder |-> 1, layer_height |-> bbox_objects[k].layer_height,
          source_file |-> None]]

\* PlateInfo(...) of one plate entry.
PlateFromJson(plate_num, plate_data) ==
  [plate_id           |-> plate_num,
   name               |-> <<"Plate", plate_num>>,
   bed_type           |-> PlateGet(plate_data, "bed_type", "unknown"),
   nozzle_diameter    |-> PlateGet(plate_data, "nozzle_diameter", 40),
   is_sequential      |-> PlateGet(plate_data, "is_seq_print", FALSE),
   objects            |-> _extract_plate_objects(plate_data),
   print_time_seconds |-> PlateGet(plate_data, "prediction", None),
   weight_grams       |-> PlateGet(plate_data, "weight", None),
   filament_used      |-> None]

\* The loop over namelist(): an entry whose JSON is malformed
\* (JSONDecodeError) or whose index is no integer (ValueError) is skipped.
RECURSIVE PlatesFromEntriesAbort(_, _)
PlatesFromEntriesAbort(entries, k) ==
  IF k > Len(entries) THEN <<>>
  ELSE LET e == entries[k]
           plate_num == int(PlateIndexText[e.name])
       IN  IF e.data = None \/ plate_num.t = "raise" THEN <<>>
           ELSE <<PlateFromJson(plate_num.v, e.data.v)>>
                \o PlatesFromEntriesAbort(entries, k + 1)
RECURSIVE PlatesFromEntries(_, _)
PlatesFromEntries(entries, k) ==
  IF k > Len(entries) THEN <<>>
  ELSE LET e == entries[k]
           plate_num == int(PlateIndexText[e.name])
           rest == PlatesFromEntries(entries, k + 1)
       IN  IF e.data = None \/ plate_num.t = "raise" THEN rest
           ELSE <<PlateFromJson(plate_num.v, e.data.v)>> \o rest

\* float(self._get_setting('nozzle_diameter', ['0.4'])[0])
NozzleDiameter(settings) ==
  LET l == _get_setting(settings, "nozzle_diameter", List(<<"0.4">>)).l
  IN  IF Len(l) = 0 THEN Raise("IndexError") ELSE float(l[1])

\* The loop over the <metadata> children of the first <plate>: the last
\* plater_id wins; int() raises ValueError on a value that is no integer.
RECURSIVE PlaterId(_, _, _)
PlaterId(metas, k, acc) ==
  IF k > Len(metas) \/ acc.t = "raise" THEN acc
  ELSE IF metas[k].key = "plater_id"
       THEN PlaterId(metas, k + 1, int(metas[k].value))
       ELSE PlaterId(metas, k + 1, acc)

\* The plate built from the first <plate> element and the project settings.
PlateFromXml(plate_elem, settings) ==
  LET plate_id == PlaterId(plate_elem.meta, 1, Ok(1))
      nozzle == NozzleDiameter(settings)
  IN  IF plate_id.t = "raise" THEN plate_id
      ELSE IF nozzle.t = "raise" THEN nozzle
      ELSE Ok([plate_id           |-> plate_id.v,
               name               |-> <<"Plate", plate_id.v>>,
               bed_type           |-> _get_setting(settings, "curr_bed_type",
                                                   Str("unknown")).s,
               nozzle_diameter    |-> nozzle.v,
               is_sequential      |-> _get_setting(settings, "print_sequence",
                                                   Str("")) = Str("by object"),
               objects            |-> <<>>,
               print_time_seconds |-> None,
               weight_grams       |-> None,
               filament_used      |-> None])

\* The fallback of _extract_plates when no plate entry gave a plate: one
\* plate when the model-settings XML has a <plate> element, none otherwise.
DefaultPlates(model_settings, settings) ==
  IF model_settings # None /\ Len(model_settings.v.plates) > 0
  THEN LET p == PlateFromXml(model_settings.v.plates[1], settings)
       IN  IF p.t = "raise" THEN p ELSE Ok(<<p.v>>)
  ELSE Ok(<<>>)

\* _extract_plates
_extract_plates(entries, model_settings, settings) ==
  LET plates == PlatesFromEntries(entries, 1)
  IN  IF Len(plates) = 0 THEN DefaultPlates(model_settings, settings)
      ELSE Ok(plates)

\* ----------------------------------------------------------- print settings

\* The characters of the bed-type labels of the model.
LabelChars ==
  ("High Temp Plate" :> <<"H", "i", "g", "h", " ", "T", "e", "m", "p", " ",
                          "P", "l", "a", "t", "e">>) @@
  ("Cool Plate" :> <<"C", "o", "o", "l", " ", "P", "l", "a", "t", "e">>) @@
  ("Textured PEI Plate" :> <<"T", "e", "x", "t", "u", "r", "e", "d", " ",
                             "P", "E", "I", " ", "P", "l", "a", "t", "e">>) @@
  ("Engineering Plate" :> <<"E", "n", "g", "i", "n", "e", "e", "r", "i", "n",
                            "g", " ", "P", "l", "a", "t", "e">>) @@
  ("Textured Cool Plate" :> <<"T", "e", "x", "t", "u", "r", "e", "d", " ",
                              "C", "o", "o", "l", " ", "P", "l", "a", "t",
                              "e">>) @@
  ("Engineering Textured" :> <<"E", "n", "g", "i", "n", "e", "e", "r", "i",
                               "n", "g", " ", "T", "e", "x", "t", "u", "r",
                               "e", "d">>) @@
  ("COOL PLATE" :> <<"C", "O", "O", "L", " ", "P", "L", "A", "T", "E">>) @@
  ("Smooth PEI Plate" :> <<"S", "m", "o", "o", "t", "h", " ", "P", "E", "I",
                           " ", "P", "l", "a", "t", "e">>) @@
  ("Strength Plate" :> <<"S", "t", "r", "e", "n", "g", "t", "h", " ", "P",
                         "l", "a", "t", "e">>)

\* sub in s
Contains(s, sub) ==
  \E i \in 0..(Len(s) - Len(sub)) : SubSeq(s, i + 1, i + Len(sub)) = sub

\* str(default) of the defaults get_int and get_float are called with.
StrOfInt == (0 :> "0") @@ (2 :> "2") @@ (3 :> "3") @@ (4 :> "4") @@
            (60 :> "60") @@ (200 :> "200")
StrOfFloat == (0 :> "0.0") @@ (20 :> "0.2")

\* get_first: the first element of a list (the default for an empty one),
\* the string itself (the default for an empty one).
get_first(settings, key, default) ==
  LET val == _get_setting(settings, key, Str(default))
  IN  IF val.t = "list"
      THEN (IF Len(val.l) > 0 THEN val.l[1] ELSE default)
      ELSE (IF val.s # "" THEN val.s ELSE default)

\* get_int: int(float(val)), the default on ValueError.
get_int(settings, key, default) ==
  LET val == float(get_first(settings, key, StrOfInt[default]))
  IN  IF val.t = "raise" THEN default ELSE val.v \div 100

\* get_float: float(val), the default on ValueError.
get_float(settings, key, default) ==
  LET val == float(get_first(settings, key, StrOfFloat[default]))
  IN  IF val.t = "raise" THEN default ELSE val.v

\* The bed-temperature key for a bed-type label.
BedTempKeyTexturedFirst(bed_type) ==
  LET lower == Lower(LabelChars[bed_type])
  IN  IF Contains(lower, <<"t", "e", "x", "t", "u", "r", "e", "d">>)
      THEN "textured_plate_temp"
      ELSE IF Contains(lower, <<"c", "o", "o", "l">>) THEN "cool_plate_temp"
      ELSE IF Contains(lower, <<"e", "n", "g">>) THEN "eng_plate_temp"
      ELSE "hot_plate_temp"
BedTempKey(bed_type) ==
  LET lower == Lower(LabelChars[bed_type])
  IN  IF Contains(lower, <<"c", "o", "o", "l">>) THEN "cool_plate_temp"
      ELSE IF Contains(lower, <<"t", "e", "x", "t", "u", "r", "e", "d">>)
      THEN "textured_plate_temp"
      ELSE IF Contains(lower, <<"e", "n", "g">>) THEN "eng_plate_temp"
      ELSE "hot_plate_temp"

\* x or None, for an int x.
OrNone(x) == IF x # 0 THEN Some(x) ELSE None

\* The keyword arguments _extract_print_settings gives PrintSettings(...).
PrintSettingsArgs(settings) ==
  LET bed_type == _get_setting(settings, "curr_bed_type",
                               Str("High Temp Plate")).s
      support == _get_setting(settings, "enable_support", Str("0")) = Str("1")
  IN  [layer_height         |-> get_float(settings, "layer_height", 20),
       initial_layer_height |-> get_float(settings,
                                          "initial_layer_print_height", 20),
       wall_loops           |-> get_int(settings, "wall_loops", 2),
       top_shell_layers     |-> get_int(settings, "top_shell_layers", 4),
       bottom_shell_layers  |-> get_int(settings, "bottom_shell_layers", 3),
       infill_density       |-> _get_setting(settings, "sparse_infill_density",
                                             Str("15%")),
       infill_pattern       |-> _get_setting(settings, "sparse_infill_pattern",
                                             Str("grid")),
       nozzle_temp          |-> get_int(settings, "nozzle_temperature", 200),
       nozzle_temp_initial  |-> get_int(settings,
                                        "nozzle_temperature_initial_layer", 200),
       bed_temp             |-> get_int(settings, BedTempKey(bed_type), 60),
       bed_type             |-> bed_type,
       print_speed          |-> OrNone(get_int(settings, "inner_wall_speed", 0)),
       travel_speed         |-> OrNone(get_int(settings, "travel_speed", 0)),
       support_enabled      |-> support,
       support_type         |-> IF support
                                THEN _get_setting(settings, "support_type", None)
                                ELSE None]

\* The fields of the PrintSettings dataclass.
PrintSettingsFields ==
  {"layer_height", "initial_layer_height", "wall_loops", "top_shell_layers",
   "bottom_shell_layers", "infill_density", "infill_pattern", "nozzle_temp",
   "nozzle_temp_initial", "bed_temp", "bed_type", "outer_wall_speed",
   "inner_wall_speed", "infill_speed", "travel_speed", "initial_layer_speed",
   "top_surface_speed", "default_acceleration", "outer_wall_acceleration",
   "inner_wall_acceleration", "line_width", "outer_wall_line_width",
   "inner_wall_line_width", "infill_line_width", "retraction_length",
   "retraction_speed", "z_hop", "z_hop_type", "fan_min_speed",
   "fan_max_speed", "seam_position", "brim_type", "brim_width",
   "skirt_loops", "support_enabled", "support_type", "ironing_enabled",
   "fuzzy_skin"}

\* The generated __init__ of the dataclass: TypeError for a keyword that is
\* no field.
PrintSettingsInit(args) ==
  IF DOMAIN args \subseteq PrintSettingsFields THEN Ok(args)
  ELSE Raise("TypeError")

\* _extract_print_settings
_extract_print_settings(settings) ==
  PrintSettingsInit(PrintSettingsArgs(settings))

\* ---------------------------------------------------------------- statistics

\* _extract_statistics
_extract_statisticsNeverAbsent(stats) ==
  IF stats = None
  THEN Some([total_print_time_seconds |-> 0, total_print_time_str |-> "",
             total_weight_grams |-> 0, total_filament_meters |-> 0,
             total_cost |-> 0, total_layers |-> 0, max_z_height |-> 0])
  ELSE Some([total_print_time_seconds |-> stats.v.estimated_time_seconds,
             total_print_time_str     |-> stats.v.estimated_time_str,
             total_weight_grams       |-> stats.v.total_weight_grams,
             total_filament_meters    |-> MmToMeters(stats.v.total_length_mm),
             total_cost               |-> stats.v.total_cost,
             total_layers             |-> stats.v.total_layers,
             max_z_height             |-> stats.v.max_z_height])
_extract_statistics(stats) ==
  IF stats = None THEN None
  ELSE Some([total_print_time_seconds |-> stats.v.estimated_time_seconds,
             total_print_time_str     |-> stats.v.estimated_time_str,
             total_weight_grams       |-> stats.v.total_weight_grams,
             total_filament_meters    |-> MmToMeters(stats.v.total_length_mm),
             total_cost               |-> stats.v.total_cost,
             total_layers             |-> stats.v.total_layers,
             max_z_height             |-> stats.v.max_z_height])

\* ------------------------------------------------------------ main document

\* title.strip() of the titles of the model.
StripOf == ("Octopus" :> "Octopus") @@ (" Octopus " :> "Octopus") @@
           ("  " :> "") @@ ("" :> "")

\* The first element of nodes with the given namespace flag and name, as a
\* sequence of at most one element.
RECURSIVE FirstMeta(_, _, _, _)
FirstMeta(nodes, k, ns, name) ==
  IF k > Len(nodes) THEN <<>>
  ELSE IF nodes[k].ns = ns /\ nodes[k].name = name THEN <<nodes[k]>>
  ELSE FirstMeta(nodes, k + 1, ns, name)

\* _get_metadata: the text of the first namespaced <metadata> of that name,
\* else of the first one without namespace, else None.
_get_metadata(main_model, name) ==
  IF main_model = None THEN None
  ELSE LET a == FirstMeta(main_model.v.meta, 1, TRUE, name)
           b == FirstMeta(main_model.v.meta, 1, FALSE, name)
       IN  IF Len(a) > 0 THEN a[1].text
           ELSE IF Len(b) > 0 THEN b[1].text
           ELSE None

\* _get_title: the stripped Title metadata, else the container's stem.
_get_title(main_model, stem) ==
  LET title == _get_metadata(main_model, "Title")
  IN  IF title # None /\ title.v # "" /\ StripOf[title.v] # ""
      THEN [t |-> "meta", s |-> StripOf[title.v]]
      ELSE [t |-> "stem", stem |-> stem]

\* The application label of extract(): the scanner's generator when it has
\* one, else the Application metadata, else 'Unknown'.
Application(main_model, stats) ==
  LET m == _get_metadata(main_model, "Application")
      application == IF m # None /\ m.v # "" THEN m.v ELSE "Unknown"
  IN  IF stats # None /\ stats.v.generator # "" THEN stats.v.generator
      ELSE application

\* ------------------------------------------------------- candidate resolver

\* The test of find_matching_gcode's loop on one candidate, on the stems.
NameMatchesCaseSensitive(gcode, project) ==
  \/ StartsWith(gcode, project)
  \/ StartsWith(project, SplitFirst(gcode))
NameMatches(gcode, project) ==
  LET project_name == Lower(project)
      gcode_name == Lower(gcode)
  IN  \/ StartsWith(gcode_name, project_name)
      \/ StartsWith(project_name, SplitFirst(gcode_name))

\* The loop of find_matching_gcode: the index of the first candidate that
\* passes the test, 0 when none does.
RECURSIVE FirstMatch(_, _, _)
FirstMatch(gcode_files, k, project) ==
  IF k > Len(gcode_files) THEN 0
  ELSE IF NameMatches(gcode_files[k], project) THEN k
  ELSE FirstMatch(gcode_files, k + 1, project)

\* find_matching_gcode up to the call of the selector: the return statement
\* reached ("none", "single", "match") and its path, or "ambiguous".
ResolutionFirstWhenAmbiguous(gcode_files, project) ==
  LET k == FirstMatch(gcode_files, 1, project)
  IN  IF Len(gcode_files) = 0 THEN [by |-> "none", path |-> NoPath]
      ELSE IF Len(gcode_files) = 1
      THEN [by |-> "single", path |-> gcode_files[1]]
      ELSE IF k > 0 THEN [by |-> "match", path |-> gcode_files[k]]
      ELSE [by |-> "match", path |-> gcode_files[1]]
ResolutionNoShortcut(gcode_files, project) ==
  LET k == FirstMatch(gcode_files, 1, project)
  IN  IF Len(gcode_files) = 0 THEN [by |-> "none", path |-> NoPath]
      ELSE IF k > 0 THEN [by |-> "match", path |-> gcode_files[k]]
      ELSE [by |-> "ambiguous", path |-> NoPath]
Resolution(gcode_files, project) ==
  LET k == FirstMatch(gcode_files, 1, project)
  IN  IF Len(gcode_files) = 0 THEN [by |-> "none", path |-> NoPath]
      ELSE IF Len(gcode_files) = 1
      THEN [by |-> "single", path |-> gcode_files[1]]
      ELSE IF k > 0 THEN [by |-> "match", path |-> gcode_files[k]]
      ELSE [by |-> "ambiguous", path |-> NoPath]

\* The state of the archive handle when the with block is left.
ExitWithLeak(handle) == handle
ExitWith(handle) == "closed"

\* ------------------------------------------------------------------- state

VARIABLES
  \* The file system, which no action changes.
  fileKind,       \* the container path: "missing", "badsuffix" (not .3mf),
                  \* "notzip" (no valid archive) or "ok"
  projectStem,    \* the container's file stem
  dirFiles,       \* the stems of the *.gcode files of the container's folder
  gcodeArg,       \* the gcode_path argument of the constructor, or NoPath
  selectorGiven,  \* whether a gcode_selector was given
  stream,         \* what GCodeParser.parse() does on a G-code file of the folder
  zipMain,        \* 3D/3dmodel.model: None (absent), Malformed or Some(document)
  zipProject,     \* Metadata/project_settings.config, likewise
  zipModel,       \* Metadata/model_settings.config, likewise
  zipPlates,      \* the Metadata/plate_*.json entries, in namelist() order
  \* The extractor.
  _gcode_path,
  _gcode_stats,
  _zip,
  _main_model,
  _project_settings,
  _model_settings,
  \* The run of extract().
  pc,             \* the next stage, or "ctor_raised", "returned", "raised"
  error,          \* the exception raised, "" when none
  handle,         \* the archive handle: "unopened", "open" or "closed"
  opens,          \* how many times the archive was opened
  filaments,      \* the local of extract(), None before it is assigned
  objects,        \* the objects argument of ProjectSummary(...), likewise
  plates,         \* the plates argument, likewise
  summary,        \* the value extract() returned, None when none
  \* What the run did.
  resolvedBy,     \* the return statement of find_matching_gcode reached
  selectorCalls,  \* how many times the gcode_selector was called
  stages,         \* the stages performed: "resolve", "scan", "config"
  \* The calls so far.
  selectorCall,   \* the gcode_selector's argument and return value, None
                  \* before it is first called
  run,            \* the number of the extract() call, from 1
  first,          \* the outcome of the first extract() call, None until
                  \* a second call starts
  instance        \* the number of the extractor instance, from 1

env == <<fileKind, projectStem, dirFiles, gcodeArg, selectorGiven, stream,
         zipMain, zipProject, zipModel, zipPlates>>
loaded == <<_main_model, _project_settings, _model_settings>>
built == <<filaments, objects, plates, summary>>
hist == <<selectorCall, run, first, instance>>
vars == <<env, _gcode_path, _gcode_stats, _zip, loaded, pc, error, handle,
          opens, built, resolvedBy, selectorCalls, stages, hist>>

Malformed == [t |-> "malformed"]

\* ------------------------------------------------------------- the inputs

SeqsUpTo(S, n) == UNION {[1..k -> S] : k \in 0..n}

\* GCodeStatistics records of the scanner (hundredths; lengths are
\* millimetres, so 150000 is 1500.0 mm).
StatsA ==
  [generator |-> "OrcaSlicer 2.2.0", estimated_time_seconds |-> 3600,
   estimated_time_str |-> "1h 0m 0s", total_weight_grams |-> 1250,
   total_length_mm |-> 400000, total_cost |-> 125, total_layers |-> 100,
   max_z_height |-> 2000,
   weight_per_slot |-> (1 :> 1250), length_per_slot |-> (1 :> 400000),
   cost_per_slot |-> <<>>]
StatsB ==
  [generator |-> "", estimated_time_seconds |-> 0,
   estimated_time_str |-> "", total_weight_grams |-> 700,
   total_length_mm |-> 150000, total_cost |-> 50, total_layers |-> 0,
   max_z_height |-> 0,
   weight_per_slot |-> (1 :> 0) @@ (3 :> 700),
   length_per_slot |-> (2 :> 150000),
   cost_per_slot |-> (1 :> 50) @@ (2 :> 0)]

\* The folder, the selector and the stream of the runs that vary the
\* container.
GcodeCases ==
  {[dir |-> {}, selector |-> FALSE, stream |-> Ok(StatsA)],
   [dir |-> {zeta}, selector |-> FALSE, stream |-> Ok(StatsA)],
   [dir |-> {zeta}, selector |-> FALSE, stream |-> Ok(StatsB)],
   [dir |-> {zeta}, selector |-> FALSE, stream |-> Raise("StreamReadError")],
   [dir |-> {zeta, omega}, selector |-> FALSE, stream |-> Ok(StatsA)],
   [dir |-> {zeta, omega}, selector |-> TRUE, stream |-> Ok(StatsB)]}

MainDoc ==
  [meta |-> <<[ns |-> TRUE, name |-> "Title", text |-> Some(" Octopus ")],
              [ns |-> TRUE, name |-> "Application",
               text |-> Some("BambuStudio-01.09")]>>]

TypeNames == <<"PLA", "PETG", "ABS", "TPU">>
ColourNames == <<"#FFFFFF", "#123456", "#FF0000", "#FFFFF">>
DensityNames == <<"1.24", "1.5", "1.24", "1.5">>

\* The per-slot lists of a project: m types, n colours, and densities that
\* are absent, numeric, or hold a string that is no number in second place.
FilamentDoc(m, n, d) ==
  (IF m > 0 THEN "filament_type" :> List(SubSeq(TypeNames, 1, m))
   ELSE EmptySettings) @@
  (IF n > 0 THEN "filament_colour" :> List(SubSeq(ColourNames, 1, n))
   ELSE EmptySettings) @@
  (IF d = "numeric"
   THEN ("filament_density" :> List(SubSeq(DensityNames, 1, Max(m, n)))) @@
        ("filament_cost" :> List(<<"25.5">>)) @@
        ("filament_vendor" :> List(<<"Bambu">>))
   ELSE IF d = "junk"
   THEN "filament_density" :> List(<<"1.24", "abc">>)
   ELSE EmptySettings)

BaseProject ==
  ("printer_model" :> Str("Bambu Lab X1 Carbon")) @@
  ("nozzle_diameter" :> List(<<"0.4">>)) @@
  ("curr_bed_type" :> Str("Textured PEI Plate")) @@
  ("textured_plate_temp" :> List(<<"65">>)) @@
  ("hot_plate_temp" :> List(<<"55">>)) @@
  ("layer_height" :> Str("0.28")) @@
  ("wall_loops" :> Str("3")) @@
  ("nozzle_temperature" :> List(<<"220">>)) @@
  ("inner_wall_speed" :> List(<<"200">>)) @@
  ("enable_support" :> Str("1")) @@
  ("support_type" :> Str("tree(auto)"))

SeqProject ==
  ("curr_bed_type" :> Str("Cool Plate")) @@
  ("cool_plate_temp" :> List(<<"35">>)) @@
  ("print_sequence" :> Str("by object"))

JunkProject ==
  ("nozzle_diameter" :> List(<<"abc">>)) @@
  ("wall_loops" :> Str("many")) @@
  ("layer_height" :> List(<<>>))

\* A bed-type label that holds two of the substrings.
MixedBedProject ==
  ("curr_bed_type" :> Str("Textured Cool Plate")) @@
  ("cool_plate_temp" :> List(<<"35">>)) @@
  ("textured_plate_temp" :> List(<<"65">>)) @@
  ("hot_plate_temp" :> List(<<"55">>))

ProjectDocs ==
  {Some(BaseProject @@ FilamentDoc(m, n, d)) :
     m \in 0..MaxFilaments, n \in 0..MaxFilaments,
     d \in {"absent", "numeric", "junk"}}

DegradedProjects ==
  {None, Malformed, Some(BaseProject @@ FilamentDoc(1, 1, "numeric")),
   Some(SeqProject), Some(JunkProject), Some(MixedBedProject)}

ObjCube ==
  [id |-> Some("1"),
   meta |-> <<[key |-> "name", value |-> "Cube"],
              [key |-> "extruder", value |-> "1"],
              [key |-> "source_file", value |-> "models/cube.stl"]>>]
ObjThird ==
  [id |-> Some("2"),
   meta |-> <<[key |-> "extruder", value |-> "2"],
              [key |-> "extruder", value |-> "3"]>>]
ObjBlank == [id |-> None, meta |-> <<[key |-> "extruder", value |-> ""]>>]
ObjJunk == [id |-> Some("4"), meta |-> <<[key |-> "extruder", value |-> "x"]>>]
ObjElems == {ObjCube, ObjThird, ObjBlank, ObjJunk}

PlateElemPlain == [meta |-> <<>>]
PlateElemTwo == [meta |-> <<[key |-> "plater_id", value |-> "2"]>>]
PlateElemJunk == [meta |-> <<[key |-> "plater_id", value |-> "x"]>>]

ModelDocs ==
  {Some([objects |-> os, plates |-> <<PlateElemTwo>>]) :
     os \in SeqsUpTo(ObjElems, MaxObjects)}

DegradedModels ==
  {None, Malformed,
   Some([objects |-> <<ObjCube>>, plates |-> <<>>]),
   Some([objects |-> <<ObjCube>>, plates |-> <<PlateElemPlain>>]),
   Some([objects |-> <<>>, plates |-> <<PlateElemTwo, PlateElemPlain>>]),
   Some([objects |-> <<ObjCube>>, plates |-> <<PlateElemJunk>>])}

PlateDocFull ==
  ("bed_type" :> "Textured PEI Plate") @@ ("nozzle_diameter" :> 40) @@
  ("is_seq_print" :> TRUE) @@
  ("bbox_objects" :>
     <<[id |-> 1, name |-> "Cube", layer_height |-> Some(20)],
       [id |-> 7, name |-> "Wipe Tower", layer_height |-> None]>>) @@
  ("prediction" :> Some(3600)) @@ ("weight" :> Some(1250))
PlateDocEmpty == <<>>

EntryOne == [name |-> "Metadata/plate_1.json", data |-> Some(PlateDocFull)]
EntryTwo == [name |-> "Metadata/plate_2.json", data |-> Some(PlateDocEmpty)]
\* An entry that is no JSON.
EntryTwoBad == [name |-> "Metadata/plate_2.json", data |-> None]
\* An entry whose index is no integer.
EntryX == [name |-> "Metadata/plate_x.json", data |-> Some(PlateDocEmpty)]

PlateEntrySeqs ==
  {<<>>, <<EntryOne>>, <<EntryTwoBad>>, <<EntryX>>, <<EntryOne, EntryTwo>>,
   <<EntryTwoBad, EntryOne>>, <<EntryOne, EntryX>>, <<EntryTwoBad, EntryX>>}

\* ------------------------------------------------------------------- Init

\* The extractor before its construction and the run before its start.
InitRun ==
  /\ _gcode_path = NoPath
  /\ _gcode_stats = None
  /\ _zip = None
  /\ _main_model = None
  /\ _project_settings = None
  /\ _model_settings = None
  /\ pc = "new"
  /\ error = ""
  /\ handle = "unopened"
  /\ opens = 0
  /\ filaments = None
  /\ objects = None
  /\ plates = None
  /\ summary = None
  /\ resolvedBy = ""
  /\ selectorCalls = 0
  /\ stages = {}
  /\ selectorCall = None
  /\ run = 1
  /\ first = None
  /\ instance = 1

CanonicalContainer ==
  /\ zipMain = Some(MainDoc)
  /\ zipProject = Some(BaseProject @@ FilamentDoc(1, 1, "numeric"))
  /\ zipModel = Some([objects |-> <<ObjCube>>, plates |-> <<PlateElemPlain>>])
  /\ zipPlates = <<>>

\* Folders of up to MaxCandidates G-code files around a sound container.
InitFolders ==
  /\ fileKind = "ok"
  /\ projectStem \in ProjectStems
  /\ dirFiles \in {d \in SUBSET Stems : Cardinality(d) <= MaxCandidates}
  /\ gcodeArg \in {NoPath, zeta, gone}
  /\ selectorGiven \in BOOLEAN
  /\ stream = Ok(StatsA)
  /\ CanonicalContainer

\* Projects of up to MaxFilaments filaments and MaxObjects objects, with
\* and without a scanned stream.
InitProjects ==
  /\ fileKind = "ok"
  /\ projectStem = part
  /\ \E c \in GcodeCases :
        dirFiles = c.dir /\ selectorGiven = c.selector /\ stream = c.stream
  /\ gcodeArg = NoPath
  /\ zipMain = Some(MainDoc)
  /\ zipProject \in ProjectDocs
  /\ zipModel \in ModelDocs
  /\ zipPlates = <<>>

\* Containers with absent and malformed entries.
InitDegraded ==
  /\ fileKind = "ok"
  /\ projectStem = part
  /\ \E c \in GcodeCases :
        dirFiles = c.dir /\ selectorGiven = c.selector /\ stream = c.stream
  /\ gcodeArg = NoPath
  /\ zipMain \in {None, Malformed, Some(MainDoc)}
  /\ zipProject \in DegradedProjects
  /\ zipModel \in DegradedModels
  /\ zipPlates \in PlateEntrySeqs

\* Projects of one filament whose colour is any colour string of the model.
InitColours ==
  /\ fileKind = "ok"
  /\ projectStem = part
  /\ dirFiles = {}
  /\ gcodeArg = NoPath
  /\ selectorGiven = FALSE
  /\ stream = Ok(StatsA)
  /\ zipMain = Some(MainDoc)
  /\ \E c \in DOMAIN Chars : zipProject = Some("filament_colour" :> List(<<c>>))
  /\ zipModel = Some([objects |-> <<ObjCube>>, plates |-> <<PlateElemPlain>>])
  /\ zipPlates = <<>>

\* Paths that are no container.
InitFatal ==
  /\ fileKind \in {"missing", "badsuffix", "notzip"}
  /\ projectStem = part
  /\ \E c \in GcodeCases :
        dirFiles = c.dir /\ selectorGiven = c.selector /\ stream = c.stream
  /\ gcodeArg \in {NoPath, zeta, gone}
  /\ CanonicalContainer

Init ==
  /\ InitFolders \/ InitProjects \/ InitDegraded \/ InitFatal \/ InitColours
  /\ InitRun

\* ---------------------------------------------------------------- actions

\* Path.exists() of a G-code path.
Exists(path) == path \in dirFiles

\* What the selector may return: a candidate, or a path that does not exist.
SelectorRange == dirFiles \cup {gone}

\* self._gcode_selector(gcode_files): the values the call may return.  The
\* selector is a function of the candidate list, so that a call after the
\* first returns what the first returned.
_gcode_selectorFickle(gcode_files) == SelectorRange
_gcode_selector(gcode_files) ==
  IF selectorCall = None THEN SelectorRange ELSE {selectorCall.v.ret}

\* An exception leaves extract() before the archive is opened.
RaiseBefore(exc) ==
  /\ pc' = "raised"
  /\ error' = exc

\* An exception leaves the with block: the handle is closed, self._zip keeps
\* referring to it.
RaiseInside(exc) ==
  /\ pc' = "raised"
  /\ error' = exc
  /\ handle' = ExitWith(handle)

\* ThreeMFExtractor(filepath, gcode_path, gcode_selector)
Construct ==
  /\ pc = "new"
  /\ IF fileKind = "missing"
     THEN pc' = "ctor_raised" /\ error' = "FileNotFoundError"
          /\ UNCHANGED _gcode_path
     ELSE IF fileKind = "badsuffix"
     THEN pc' = "ctor_raised" /\ error' = "ValueError"
          /\ UNCHANGED _gcode_path
     ELSE IF gcodeArg # NoPath /\ ~Exists(gcodeArg)
     THEN pc' = "ctor_raised" /\ error' = "FileNotFoundError"
          /\ _gcode_path' = gcodeArg
     ELSE pc' = "constructed" /\ error' = ""
          /\ _gcode_path' = gcodeArg
  /\ UNCHANGED <<env, _gcode_stats, _zip, loaded, handle, opens, built,
                 resolvedBy, selectorCalls, hist, stages>>

\* The test of extract(), line 99, negated: the instance holds a path.
HeldNever(path) == FALSE
Held(path) == path # NoPath

\* extract(), lines 99-100: find_matching_gcode() when no path is held.
ExtractResolve ==
  /\ pc = "constructed"
  /\ pc' = "resolved"
  /\ IF Held(_gcode_path)
     THEN UNCHANGED <<_gcode_path, resolvedBy, selectorCalls, stages,
                      selectorCall>>
     ELSE /\ stages' = stages \cup {"resolve"}
          /\ LET gcode_files == Sorted(dirFiles)
                 r == Resolution(gcode_files, projectStem)
             IN  IF r.by # "ambiguous"
                 THEN /\ _gcode_path' = r.path
                      /\ resolvedBy' = r.by
                      /\ UNCHANGED <<selectorCalls, selectorCall>>
                 ELSE IF selectorGiven
                 THEN /\ \E chosen \in _gcode_selector(gcode_files) :
                           /\ _gcode_path' = chosen
                           /\ selectorCall' = Some([arg |-> gcode_files,
                                                    ret |-> chosen])
                      /\ resolvedBy' = "selector"
                      /\ selectorCalls' = selectorCalls + 1
                 ELSE /\ _gcode_path' = NoPath
                      /\ resolvedBy' = "unresolved"
                      /\ UNCHANGED <<selectorCalls, selectorCall>>
  /\ UNCHANGED <<env, _gcode_stats, _zip, loaded, error, handle, opens, built,
                 run, first, instance>>

\* extract(), lines 103-105: GCodeParser(path).parse() on an existing path.
ExtractScan ==
  /\ pc = "resolved"
  /\ IF _gcode_path # NoPath /\ Exists(_gcode_path)
     THEN /\ stages' = stages \cup {"scan"}
          /\ IF stream.t = "raise"
             THEN RaiseBefore(stream.exc) /\ UNCHANGED _gcode_stats
             ELSE pc' = "scanned" /\ _gcode_stats' = Some(stream.v)
                  /\ UNCHANGED error
     ELSE pc' = "scanned" /\ UNCHANGED <<_gcode_stats, error, stages>>
  /\ UNCHANGED <<env, _gcode_path, _zip, loaded, handle, opens, built,
                 resolvedBy, selectorCalls, hist>>

\* extract(), lines 107-108: zipfile.ZipFile(filepath) and the entry of the
\* with block.
ExtractOpen ==
  /\ pc = "scanned"
  /\ IF fileKind = "notzip"
     THEN RaiseBefore("BadZipFile") /\ UNCHANGED <<_zip, handle, opens>>
     ELSE /\ pc' = "opened"
          /\ handle' = "open"
          /\ opens' = opens + 1
          /\ _zip' = Some("zf")
          /\ UNCHANGED error
  /\ UNCHANGED <<env, _gcode_path, _gcode_stats, loaded, built, resolvedBy,
                 selectorCalls, hist, stages>>

\* _load_main_model catches KeyError only: the ParseError of a malformed
\* document leaves extract().
_load_main_model(entry) ==
  IF entry = None THEN Ok(None)
  ELSE IF entry = Malformed THEN Raise("ParseError")
  ELSE Ok(entry)

\* _load_project_settings: {} for an absent or malformed document.
_load_project_settings(entry) ==
  IF entry = None \/ entry = Malformed THEN Some(EmptySettings) ELSE entry

\* _load_model_settings: None for an absent or malformed document.
_load_model_settings(entry) ==
  IF entry = None \/ entry = Malformed THEN None ELSE entry

\* extract(), lines 111-113.
ExtractLoad ==
  /\ pc = "opened"
  /\ stages' = stages \cup {"config"}
  /\ LET m == _load_main_model(zipMain)
     IN  IF m.t = "raise"
         THEN RaiseInside(m.exc) /\ UNCHANGED loaded
         ELSE /\ pc' = "loaded"
              /\ _main_model' = m.v
              /\ _project_settings' = _load_project_settings(zipProject)
              /\ _model_settings' = _load_model_settings(zipModel)
              /\ UNCHANGED <<error, handle>>
  /\ UNCHANGED <<env, _gcode_path, _gcode_stats, _zip, opens, built,
                 resolvedBy, selectorCalls, hist>>

\* extract(), line 125.
ExtractFilaments ==
  /\ pc = "loaded"
  /\ LET f == _extract_filaments(_project_settings.v)
     IN  IF f.t = "raise"
         THEN RaiseInside(f.exc) /\ UNCHANGED filaments
         ELSE pc' = "filaments" /\ filaments' = Some(f.v)
              /\ UNCHANGED <<error, handle>>
  /\ UNCHANGED <<env, _gcode_path, _gcode_stats, _zip, loaded, opens,
                 objects, plates, summary, resolvedBy, selectorCalls, hist, stages>>

\* extract(), line 126.
ExtractOverlay ==
  /\ pc = "filaments"
  /\ pc' = "overlaid"
  /\ filaments' = Some(_update_filaments_from_gcode(filaments.v, _gcode_stats))
  /\ UNCHANGED <<env, _gcode_path, _gcode_stats, _zip, loaded, error, handle,
                 opens, objects, plates, summary, resolvedBy, selectorCalls, hist,
                 stages>>

\* extract(), lines 136-138: the arguments of ProjectSummary(...) up to
\* objects, in the order they are evaluated.
ExtractObjects ==
  /\ pc = "overlaid"
  /\ LET n == NozzleDiameter(_project_settings.v)
         o == _extract_objects(_model_settings)
     IN  IF n.t = "raise" THEN RaiseInside(n.exc) /\ UNCHANGED objects
         ELSE IF o.t = "raise" THEN RaiseInside(o.exc) /\ UNCHANGED objects
         ELSE pc' = "objects" /\ objects' = Some(o.v)
              /\ UNCHANGED <<error, handle>>
  /\ UNCHANGED <<env, _gcode_path, _gcode_stats, _zip, loaded, opens,
                 filaments, plates, summary, resolvedBy, selectorCalls, hist, stages>>

\* extract(), line 139.
ExtractPlates ==
  /\ pc = "objects"
  /\ LET p == _extract_plates(zipPlates, _model_settings, _project_settings.v)
     IN  IF p.t = "raise" THEN RaiseInside(p.exc) /\ UNCHANGED plates
         ELSE pc' = "plates" /\ plates' = Some(p.v)
              /\ UNCHANGED <<error, handle>>
  /\ UNCHANGED <<env, _gcode_path, _gcode_stats, _zip, loaded, opens,
                 filaments, objects, summary, resolvedBy, selectorCalls, hist, stages>>

\* ProjectSummary(...) of extract(), with the arguments already evaluated.
Summary(settings) ==
  [title           |-> _get_title(_main_model, projectStem),
   source_file     |-> projectStem,
   gcode_file      |-> _gcode_path,
   application     |-> Application(_main_model, _gcode_stats),
   printer_model   |-> _get_setting(_project_settings.v, "printer_model",
                                    Str("Unknown")),
   nozzle_diameter |-> NozzleDiameter(_project_settings.v).v,
   filaments       |-> filaments.v,
   objects         |-> objects.v,
   plates          |-> plates.v,
   settings        |-> settings,
   statistics      |-> _extract_statistics(_gcode_stats),
   is_sliced       |-> _gcode_stats # None]

\* extract(), lines 140-146: the settings and the statistics, the summary,
\* and the return.
ExtractSettings ==
  /\ pc = "plates"
  /\ LET s == _extract_print_settings(_project_settings.v)
     IN  IF s.t = "raise"
         THEN RaiseInside(s.exc) /\ UNCHANGED <<summary, _zip>>
         ELSE /\ pc' = "returned"
              /\ summary' = Some(Summary(s.v))
              /\ _zip' = None
              /\ handle' = ExitWith(handle)
              /\ UNCHANGED error
  /\ UNCHANGED <<env, _gcode_path, _gcode_stats, loaded, opens, filaments,
                 objects, plates, resolvedBy, selectorCalls, hist, stages>>

\* What a call of extract() leaves its caller with: the exception or the
\* summary (the extraction date apart), and what the call built.
Outcome ==
  [ended |-> pc, error |-> error, summary |-> summary,
   gcode_file |-> _gcode_path, gcode_stats |-> _gcode_stats,
   filaments |-> filaments, objects |-> objects, plates |-> plates]

\* The start of a later call: its locals are new, its archive handle is
\* not yet opened.
NewCall ==
  /\ run < MaxRuns
  /\ run' = run + 1
  /\ first' = IF run = 1 THEN Some(Outcome) ELSE first
  /\ error' = ""
  /\ handle' = "unopened"
  /\ opens' = 0
  /\ filaments' = None
  /\ objects' = None
  /\ plates' = None
  /\ summary' = None
  /\ stages' = {}
  /\ UNCHANGED <<env, selectorCall>>

\* extract() is called again on the same instance, which keeps its fields.
ExtractAgain ==
  /\ pc \in {"returned", "raised"}
  /\ NewCall
  /\ pc' = "constructed"
  /\ UNCHANGED <<_gcode_path, _gcode_stats, _zip, loaded, resolvedBy,
                 selectorCalls, instance>>

\* A new extractor is constructed with the same arguments.
ConstructAgain ==
  /\ pc \in {"ctor_raised", "returned", "raised"}
  /\ NewCall
  /\ pc' = "new"
  /\ instance' = instance + 1
  /\ _gcode_path' = NoPath
  /\ _gcode_stats' = None
  /\ _zip' = None
  /\ _main_model' = None
  /\ _project_settings' = None
  /\ _model_settings' = None
  /\ resolvedBy' = ""
  /\ selectorCalls' = 0

Next ==
  \/ Construct
  \/ ExtractResolve
  \/ ExtractScan
  \/ ExtractOpen
  \/ ExtractLoad
  \/ ExtractFilaments
  \/ ExtractOverlay
  \/ ExtractObjects
  \/ ExtractPlates
  \/ ExtractSettings

Spec == Init /\ [][Next]_vars

\* The runs of up to MaxRuns calls, on one instance or on new ones.
NextRerun ==
  \/ Next
  \/ ExtractAgain
  \/ ConstructAgain

SpecRerun == Init /\ [][NextRerun]_vars

\* extract() or the constructor has ended.
Ended == pc \in {"ctor_raised", "returned", "raised"}

\* ------------------------------------------------------------------ claims

\* The length of the list a settings key holds, 0 for an absent key.
DeclaredLen(key) ==
  IF key \in DOMAIN _project_settings.v
  THEN Len(_project_settings.v[key].l) ELSE 0

\* C1: with N filament colours and M filament types declared, the list
\* _extract_filaments builds has max(N, M, 1) entries, and the slot of its
\* i-th entry (0-based) is i + 1: the slots are exactly 1..count.
C1_FilamentSlots ==
  filaments # None =>
    LET N == DeclaredLen("filament_colour")
        M == DeclaredLen("filament_type")
        count == IF N >= M /\ N >= 1 THEN N ELSE IF M >= 1 THEN M ELSE 1
    IN  /\ Len(filaments.v) = count
        /\ \A j \in 1..Len(filaments.v) : filaments.v[j].slot = j
        /\ {filaments.v[j].slot : j \in 1..Len(filaments.v)} = 1..count

\* More colours than types are declared and the list is built.
C1_Witness ==
  /\ filaments # None
  /\ DeclaredLen("filament_colour") = 2
  /\ DeclaredLen("filament_type") = 1
  /\ Len(filaments.v) = 2

\* What _extract_print_settings documents as defaults.
DefaultPrintSettings ==
  [layer_height |-> 20, initial_layer_height |-> 20, wall_loops |-> 2,
   top_shell_layers |-> 4, bottom_shell_layers |-> 3,
   infill_density |-> Str("15%"), infill_pattern |-> Str("grid"),
   nozzle_temp |-> 200, nozzle_temp_initial |-> 200, bed_temp |-> 60,
   bed_type |-> "High Temp Plate", print_speed |-> None,
   travel_speed |-> None, support_enabled |-> FALSE, support_type |-> None]

\* C2: for a valid container without the project-settings JSON, extract()
\* returns a summary whose PrintSettings holds the documented defaults.
\* Stated for the least demanding such containers: every other entry is
\* well-formed and the folder holds no G-code file.
C2_DefaultsWithoutSettings ==
  (/\ Ended
   /\ fileKind = "ok"
   /\ zipProject = None
   /\ zipMain \notin {None, Malformed}
   /\ zipModel \notin {None, Malformed}
   /\ zipModel.v.plates = <<PlateElemPlain>>
   /\ zipPlates = <<>>
   /\ dirFiles = {})
  => /\ pc = "returned"
     /\ summary.v.settings = DefaultPrintSettings

\* The stream is missing, unresolved among several candidates, or
\* unreadable.
NoStatistics ==
  \/ resolvedBy \in {"none", "unresolved"}
  \/ error = "StreamReadError"

\* C3: when the machine-control stream is missing, unresolved or unreadable,
\* extract() does not fail: it returns a summary without statistics whose
\* is_sliced flag is false.
C3_ContinuesWithoutStatistics ==
  (Ended /\ fileKind = "ok" /\ NoStatistics)
  => /\ pc = "returned"
     /\ summary.v.statistics = None
     /\ ~summary.v.is_sliced

\* C4: the archive is opened at most once per extract(), and once extract()
\* has ended, by a return or by an exception of any stage, the handle is
\* not open.
C4_HandleClosed ==
  /\ opens <= 1
  /\ Ended => handle # "open"
  /\ (Ended /\ opens = 1) => handle = "closed"

\* extract() ended inside the with block, by an exception of a stage.
C4_Witness ==
  /\ pc = "raised"
  /\ opens = 1
  /\ handle = "closed"
  /\ error \in {"ParseError", "ValueError", "TypeError"}

\* C5: when the container path does not exist or is no valid archive, the
\* failure ends the run at once: no candidate resolution, no call of the
\* selector, no scan, no configuration parsing, and no summary.  Stated for
\* the runs that this failure ends.
C5_FatalInputStopsRun ==
  (/\ Ended
   /\ fileKind \in {"missing", "notzip"}
   /\ error \in {"FileNotFoundError", "BadZipFile"})
  => /\ stages = {}
     /\ selectorCalls = 0
     /\ summary = None

\* The slots of the filaments of the run.
FilamentSlots == {filaments.v[j].slot : j \in 1..Len(filaments.v)}

\* C6: the extruder of every object built from the XML object list, and of
\* every object placed on a plate, is the slot of a filament of the same
\* run.
C6_ObjectSlotsExist ==
  /\ (filaments # None /\ objects # None) =>
       \A k \in 1..Len(objects.v) : objects.v[k].extruder \in FilamentSlots
  /\ (filaments # None /\ plates # None) =>
       \A p \in 1..Len(plates.v) :
         \A k \in 1..Len(plates.v[p].objects) :
           plates.v[p].objects[k].extruder \in FilamentSlots

\* C7: without per-plate JSON, _extract_plates gives exactly one plate: from
\* the first <plate> element and the project settings when there is one,
\* from defaults otherwise.
C7_OnePlateWithoutJson ==
  (plates # None /\ zipPlates = <<>>) => Len(plates.v) = 1

\* _update_filaments_from_gcode has run on the filaments.
Overlaid == filaments # None /\ pc # "filaments"

\* The usage field a per-slot mapping gives a slot: its value, else null.
FromMapping(mapping, slot) ==
  IF slot \in DOMAIN mapping THEN Some(mapping[slot]) ELSE None

\* C8 as claimed: after the overlay, each usage field of a filament is
\* non-null only if the scanner's mapping holds the filament's slot, and is
\* then that slot's value; without a scan result all three stay null.
C8_UsageIsMappingValue ==
  Overlaid =>
    \A j \in 1..Len(filaments.v) :
      LET f == filaments.v[j]
      IN  IF _gcode_stats = None
          THEN f.used_grams = None /\ f.used_meters = None
               /\ f.estimated_cost = None
          ELSE /\ f.used_grams =
                    FromMapping(_gcode_stats.v.weight_per_slot, f.slot)
               /\ f.used_meters =
                    FromMapping(_gcode_stats.v.length_per_slot, f.slot)
               /\ f.estimated_cost =
                    FromMapping(_gcode_stats.v.cost_per_slot, f.slot)

\* C8, amended: as claimed, but the used length is the mapping's value
\* divided by 1000 (millimetres to metres); mass and cost are the mapping's
\* values.  A slot no mapping holds keeps null, never 0.
C8_UsageFromMatchingSlot ==
  Overlaid =>
    \A j \in 1..Len(filaments.v) :
      LET f == filaments.v[j]
      IN  IF _gcode_stats = None
          THEN f.used_grams = None /\ f.used_meters = None
               /\ f.estimated_cost = None
          ELSE /\ f.used_grams =
                    FromMapping(_gcode_stats.v.weight_per_slot, f.slot)
               /\ f.used_meters =
                    (IF f.slot \in DOMAIN _gcode_stats.v.length_per_slot
                     THEN Some(_gcode_stats.v.length_per_slot[f.slot] \div 1000)
                     ELSE None)
               /\ f.estimated_cost =
                    FromMapping(_gcode_stats.v.cost_per_slot, f.slot)

\* A scan result overlaid on two filaments: one gets a mass of 0 from the
\* mapping and no length, the other a length and no mass.
C8_Witness ==
  /\ Overlaid
  /\ _gcode_stats # None
  /\ Len(filaments.v) = 2
  /\ filaments.v[1].used_grams = Some(0)
  /\ filaments.v[1].used_meters = None
  /\ filaments.v[2].used_grams = None
  /\ filaments.v[2].used_meters = Some(150)

\* Name similarity as the claims state it, on lower-cased stems.
Similar(gcode, project) ==
  \/ StartsWith(Lower(gcode), Lower(project))
  \/ StartsWith(Lower(project), SplitFirst(Lower(gcode)))

\* C9: with exactly one G-code file in the folder, find_matching_gcode
\* returns it whatever its name and the selector is not called; the
\* selector is called only with two or more candidates none of which passes
\* name similarity.
C9_SingleCandidate ==
  /\ (resolvedBy # "" /\ Cardinality(dirFiles) = 1) =>
       /\ _gcode_path \in dirFiles
       /\ selectorCalls = 0
  /\ selectorCalls > 0 =>
       /\ Cardinality(dirFiles) >= 2
       /\ \A g \in dirFiles : ~Similar(g, projectStem)

\* One candidate whose name is not similar is returned, a selector being
\* there to call.
C9_Witness ==
  /\ resolvedBy = "single"
  /\ selectorGiven
  /\ _gcode_path \in dirFiles
  /\ ~Similar(_gcode_path, projectStem)

\* C10 as claimed: with two or more candidates, name similarity selects the
\* first candidate, in sorted file-name order, whose stem starts with the
\* container's stem or whose stem up to its first underscore is a prefix of
\* the container's stem.
C10_FirstSimilarAsWritten ==
  (resolvedBy # "" /\ Cardinality(dirFiles) >= 2) =>
    LET similar == {g \in dirFiles :
                      \/ StartsWith(g, projectStem)
                      \/ StartsWith(projectStem, SplitFirst(g))}
    IN  IF similar = {} THEN resolvedBy \in {"selector", "unresolved"}
        ELSE /\ resolvedBy = "match"
             /\ _gcode_path \in similar
             /\ \A h \in similar \ {_gcode_path} :
                  StrLess(FileName(_gcode_path), FileName(h))

\* C10, amended: as claimed, with both stems lower-cased before they are
\* compared; for part.gcode and part_plate2.gcode beside part.3mf the
\* result is part.gcode.
C10_FirstSimilar ==
  /\ (resolvedBy # "" /\ Cardinality(dirFiles) >= 2) =>
       LET similar == {g \in dirFiles : Similar(g, projectStem)}
       IN  IF similar = {} THEN resolvedBy \in {"selector", "unresolved"}
           ELSE /\ resolvedBy = "match"
                /\ _gcode_path \in similar
                /\ \A h \in similar \ {_gcode_path} :
                     StrLess(FileName(_gcode_path), FileName(h))
  /\ (resolvedBy # "" /\ dirFiles = {part, part_plate2}
        /\ projectStem = part) => _gcode_path = part

\* part.gcode is selected between part.gcode and part_plate2.gcode.
C10_Witness ==
  /\ resolvedBy = "match"
  /\ dirFiles = {part, part_plate2}
  /\ projectStem = part
  /\ _gcode_path = part

\* Two or more candidates, none of them similar to the container's name,
\* and no path given to the constructor.
Ambiguous ==
  /\ gcodeArg = NoPath
  /\ Cardinality(dirFiles) >= 2
  /\ \A g \in dirFiles : ~Similar(g, projectStem)

\* C11: with two or more candidates and no similar name, a supplied
\* selector is called with the sorted candidate list and find_matching_gcode
\* returns exactly what it returned; without a selector it returns None and
\* raises nothing, no stream is scanned, and a summary built from the run
\* has no G-code file, no statistics and is_sliced false.
C11_AmbiguousDelegates ==
  (resolvedBy # "" /\ Ambiguous) =>
    IF selectorGiven
    THEN /\ resolvedBy = "selector"
         /\ selectorCall # None
         /\ selectorCall.v.arg = Sorted(dirFiles)
         /\ _gcode_path = selectorCall.v.ret
    ELSE /\ resolvedBy = "unresolved"
         /\ selectorCall = None
         /\ _gcode_path = NoPath
         /\ pc = "resolved" => error = ""
         /\ "scan" \notin stages
         /\ _gcode_stats = None
         /\ summary # None =>
              /\ summary.v.gcode_file = NoPath
              /\ summary.v.statistics = None
              /\ ~summary.v.is_sliced

\* zeta.gcode and omega.gcode beside part.3mf and no selector: the
\* resolver has returned None and the run has gone on to the archive.
C11_Witness ==
  /\ Ambiguous
  /\ ~selectorGiven
  /\ resolvedBy = "unresolved"
  /\ _gcode_path = NoPath
  /\ pc = "opened"

\* The bed-temperature key the claim gives each bed-type label.
ClaimedBedKey ==
  ("High Temp Plate" :> "hot_plate_temp") @@
  ("Cool Plate" :> "cool_plate_temp") @@
  ("Textured PEI Plate" :> "textured_plate_temp") @@
  ("Engineering Plate" :> "eng_plate_temp") @@
  ("Textured Cool Plate" :> "cool_plate_temp") @@
  ("Engineering Textured" :> "textured_plate_temp") @@
  ("COOL PLATE" :> "cool_plate_temp") @@
  ("Smooth PEI Plate" :> "hot_plate_temp") @@
  ("Strength Plate" :> "eng_plate_temp")

\* C12: the bed-temperature key is chosen from the lower-cased bed-type
\* label by the first of 'cool', 'textured', 'eng' it contains, the
\* hot-plate key when it contains none; the bed temperature of a run is
\* read under that key.
C12_BedTempKey ==
  /\ \A label \in DOMAIN LabelChars :
       BedTempKey(label) = ClaimedBedKey[label]
  /\ _project_settings # None =>
       LET settings == _project_settings.v
           bed_type == _get_setting(settings, "curr_bed_type",
                                    Str("High Temp Plate")).s
       IN  PrintSettingsArgs(settings).bed_temp =
             get_int(settings, ClaimedBedKey[bed_type], 60)

\* The settings of a project whose label holds both 'textured' and 'cool'
\* have been extracted: the bed temperature is the cool plate's.
C12_Witness ==
  /\ error = "TypeError"
  /\ _project_settings = Some(MixedBedProject)
  /\ PrintSettingsArgs(_project_settings.v).bed_temp = 35

\* The colour names the run gave the filaments of colour c.
NamesOf(c) ==
  IF filaments = None THEN {}
  ELSE {filaments.v[j].color_name :
          j \in {i \in 1..Len(filaments.v) : filaments.v[i].color = c}}

\* C13 as claimed: #FFFFFF gets the palette's white label and #123456 the
\* empty name.
C13_WhiteAndFarAsWritten ==
  /\ NamesOf("#FFFFFF") \subseteq {"Branco"}
  /\ NamesOf("#123456") \subseteq {""}

\* C13, amended: #FFFFFF gets the white label 'Branco'; #123456 gets
\* 'Cinza Escuro', its nearest palette entry (77, 77, 77) being at squared
\* distance 4187; #800080, at 11131 from its nearest entry, gets the empty
\* name.
C13_WhiteAndFar ==
  /\ NamesOf("#FFFFFF") \subseteq {"Branco"}
  /\ NamesOf("#123456") \subseteq {"Cinza Escuro"}
  /\ NamesOf("#800080") \subseteq {""}
  /\ Closest(18, 52, 86, 1, -1, "").min_dist = 4187
  /\ Closest(128, 0, 128, 1, -1, "").min_dist = 11131

\* A project whose filaments are #FFFFFF and #123456: the names are
\* 'Branco' and 'Cinza Escuro'.
C13_Witness ==
  /\ NamesOf("#FFFFFF") = {"Branco"}
  /\ NamesOf("#123456") = {"Cinza Escuro"}

\* A colour string of the form #RRGGBB: '#' and exactly six hexadecimal
\* digits.
WellFormed(c) ==
  LET s == Chars[c]
  IN  /\ Len(s) = 7
      /\ s[1] = "#"
      /\ \A i \in 2..7 : s[i] \in DOMAIN HexVal

\* C14: a filament whose colour string is not of the form #RRGGBB gets the
\* empty colour name, and building the filament list raises nothing
\* because of it.
C14_MalformedYieldsEmpty ==
  filaments # None =>
    \A j \in 1..Len(filaments.v) :
      LET f == filaments.v[j]
      IN  (f.color \in DOMAIN Chars /\ ~WellFormed(f.color)) =>
            f.color_name = ""

\* C15: when the main document or the model-settings document of the
\* container is absent or malformed, its parser yields an empty result and
\* extract() does not fail: a run that has read the documents ends with a
\* summary, whose title and application come from no metadata when the main
\* document is the one, and whose object list is empty when the
\* model-settings document is.
C15_XmlDegradesToEmpty ==
  LET mainGone == zipMain \in {None, Malformed}
      modelGone == zipModel \in {None, Malformed}
  IN  ("config" \in stages /\ Ended /\ (mainGone \/ modelGone)) =>
        /\ pc = "returned"
        /\ summary # None
        /\ mainGone =>
             /\ _main_model = None
             /\ summary.v.title = [t |-> "stem", stem |-> projectStem]
        /\ modelGone =>
             /\ _model_settings = None
             /\ summary.v.objects = <<>>

\* A plate entry that is JSON and whose name holds an integer index.
WellFormedEntry(e) ==
  e.data # None /\ PlateIndexText[e.name] \in DOMAIN IntOf

\* The plate_*.json entries of the container that are well-formed, in
\* namelist() order.
WellFormedEntries == SelectSeq(zipPlates, WellFormedEntry)

\* C16: when the container has plate entries of which some are malformed
\* (no JSON, or an index that is no integer) and some well-formed,
\* _extract_plates raises nothing and returns one plate for every
\* well-formed entry, in order.
C16_MalformedPlateSkipped ==
  (objects # None /\ pc # "objects" /\ Len(WellFormedEntries) > 0) =>
     /\ plates # None
     /\ Len(plates.v) = Len(WellFormedEntries)
     /\ \A k \in 1..Len(WellFormedEntries) :
          /\ plates.v[k].plate_id =
               IntOf[PlateIndexText[WellFormedEntries[k].name]]
          /\ plates.v[k] =
               PlateFromJson(plates.v[k].plate_id, WellFormedEntries[k].data.v)

\* plate_2.json is no JSON and comes before plate_1.json: the plate list
\* is the plate of plate_1.json.
C16_Witness ==
  /\ zipPlates = <<EntryTwoBad, EntryOne>>
  /\ plates # None
  /\ Len(plates.v) = 1
  /\ plates.v[1].plate_id = 1

\* The container holds a value that no numeric coercion accepts: a filament
\* density or cost, the nozzle diameter, a numeric print setting, or an
\* object's extruder.
JunkNumber ==
  \/ /\ zipProject \notin {None, Malformed}
     /\ \/ \E key \in {"filament_density", "filament_cost",
                        "nozzle_diameter"} \cap DOMAIN zipProject.v :
             \E i \in 1..Len(zipProject.v[key].l) :
               float(zipProject.v[key].l[i]).t = "raise"
        \/ /\ "wall_loops" \in DOMAIN zipProject.v
           /\ float(zipProject.v["wall_loops"].s).t = "raise"
  \/ /\ zipModel \notin {None, Malformed}
     /\ \E k \in 1..Len(zipModel.v.objects) :
          \E m \in 1..Len(zipModel.v.objects[k].meta) :
            LET meta == zipModel.v.objects[k].meta[m]
            IN  meta.key = "extruder" /\ meta.value # ""
                /\ int(meta.value).t = "raise"

\* C17: a value that no numeric coercion accepts is replaced by its
\* field's default and nothing is raised past the field: a run on a
\* container whose documents are otherwise sound ends with a summary.
C17_CoercionRecovered ==
  (JunkNumber /\ zipMain = Some(MainDoc) /\ "config" \in stages /\ Ended) =>
     /\ error # "ValueError"
     /\ pc = "returned"
     /\ summary # None

\* The channels of a colour string of the form #RRGGBB.
Rgb(c) ==
  LET s == Chars[c]
  IN  <<16 * HexVal[s[2]] + HexVal[s[3]], 16 * HexVal[s[4]] + HexVal[s[5]],
        16 * HexVal[s[6]] + HexVal[s[7]]>>

\* The squared Euclidean distance of colour c to the k-th palette entry.
PaletteDist(c, k) ==
  LET p == Palette[k].rgb
      q == Rgb(c)
  IN  (q[1] - p[1]) * (q[1] - p[1]) + (q[2] - p[2]) * (q[2] - p[2])
      + (q[3] - p[3]) * (q[3] - p[3])

\* The earliest palette entry among those nearest to colour c.
Nearest(c) ==
  CHOOSE k \in 1..Len(Palette) :
    \A j \in 1..Len(Palette) :
      /\ PaletteDist(c, k) <= PaletteDist(c, j)
      /\ PaletteDist(c, j) = PaletteDist(c, k) => k <= j

\* C19: a filament whose colour is of the form #RRGGBB is named after the
\* palette entry of least squared distance to it, the earliest one on a
\* tie, when that distance is below 10000, and gets the empty name when it
\* is 10000 or more.
C19_NearestWithinThreshold ==
  filaments # None =>
    \A j \in 1..Len(filaments.v) :
      LET f == filaments.v[j]
      IN  (f.color \in DOMAIN Chars /\ WellFormed(f.color)) =>
            /\ f.color_name =
                 IF PaletteDist(f.color, Nearest(f.color)) < 10000
                 THEN Palette[Nearest(f.color)].name ELSE ""
            /\ f.color = "#000064" =>
                 /\ PaletteDist(f.color, Nearest(f.color)) = 10000
                 /\ f.color_name = ""

\* #A69728 is at 9717 from both 'Laranja' and 'Cinza': the filament is
\* named 'Laranja', the earlier entry.
C19_Witness ==
  /\ filaments # None
  /\ filaments.v[1].color = "#A69728"
  /\ PaletteDist("#A69728", 7) = 9717
  /\ PaletteDist("#A69728", 8) = 9717
  /\ filaments.v[1].color_name = "Laranja"

\* is_sliced iff statistics are present, and statistics only with a G-code
\* file, in a summary s.
SlicedIffStatistics(s) ==
  /\ s.is_sliced <=> s.statistics # None
  /\ s.statistics # None => s.gcode_file # NoPath

\* C20: in every summary extract() returns, and in the arguments a run
\* holds for ProjectSummary(...) once the plates are extracted, is_sliced
\* is true iff the statistics are present, and the statistics are present
\* only with the name of a G-code file.
C20_SlicedIffStatistics ==
  /\ plates # None =>
       SlicedIffStatistics(Summary(PrintSettingsArgs(_project_settings.v)))
  /\ summary # None => SlicedIffStatistics(summary.v)

\* A run that scanned a stream has evaluated the arguments of
\* ProjectSummary(...) up to the settings.
C20_Witness ==
  /\ plates # None
  /\ pc = "raised"
  /\ _gcode_stats # None
  /\ _gcode_path # NoPath
  /\ Summary(PrintSettingsArgs(_project_settings.v)).is_sliced

C21_HeldPathReused ==
  [][/\ (pc = "constructed" /\ _gcode_path # NoPath) =>
          /\ _gcode_path' = _gcode_path
          /\ selectorCalls' = selectorCalls
          /\ resolvedBy' = resolvedBy
          /\ "resolve" \notin stages'
     /\ gcodeArg # NoPath => selectorCalls' = 0
     /\ selectorCalls' <= 1]_vars

\* The second call on an instance whose first call had the selector choose
\* a candidate has passed the resolution: the selector was called once.
C21_Witness ==
  /\ run = 2
  /\ instance = 1
  /\ pc = "resolved"
  /\ selectorCalls = 1
  /\ selectorCall # None
  /\ _gcode_path = selectorCall.v.ret
  /\ "resolve" \notin stages

====
